---- MODULE Spec2Model ----
(***************************************************************************)
(* Model of pkg/configuration/configuration.go of the registration         *)
(* service: a facade over a viper registry (defaults, automatic            *)
(* environment binding, an optional YAML file), a secret mapping kept      *)
(* beside the registry, and a list of excluded e-mail domains derived at   *)
(* construction.                                                           *)
(*                                                                         *)
(* Go strings are TLA+ strings; their runes are read with SubSeq.  A Go    *)
(* interface{} value is a record [t, s, n, l]: t its dynamic type, s the   *)
(* payload of a string, n the payload of a bool (0/1), an int or a         *)
(* time.Duration (in whole seconds), l the payload of a []string.          *)
(***************************************************************************)
EXTENDS Integers, Sequences, FiniteSets

\* ------------------------------------------------------------------ bounds

\* Longest excluded-domains string the environment or the file supplies,
\* beside the documented example "redhat.com,ibm.com".
MaxLen == 2

\* ----------------------------------------------------------- Go strings

Rune(s, i) == SubSeq(s, i, i)

LowerLetters == "abcdefghijklmnopqrstuvwxyz"
UpperLetters == "ABCDEFGHIJKLMNOPQRSTUVWXYZ"
DecimalDigits == "0123456789"

\* unicode.ToUpper on the runes the keys are written in.
ToUpperRune(r) ==
    IF \E i \in 1..Len(LowerLetters) : Rune(LowerLetters, i) = r
    THEN LET i == CHOOSE j \in 1..Len(LowerLetters) : Rune(LowerLetters, j) = r
         IN  Rune(UpperLetters, i)
    ELSE r

RECURSIVE ToUpper(_)
\* strings.ToUpper
ToUpper(s) == IF s = "" THEN "" ELSE ToUpperRune(Head(s)) \o ToUpper(Tail(s))

RECURSIVE ReplaceRune(_, _, _)
\* strings.NewReplacer(old, new).Replace(s) for one-rune old and new.
ReplaceRune(s, old, new) ==
    IF s = "" THEN ""
    ELSE (IF Head(s) = old THEN new ELSE Head(s)) \o ReplaceRune(Tail(s), old, new)

RECURSIVE FieldsFuncLoop(_, _, _, _)
\* The loop of strings.FieldsFunc(s, f) with f(c) = (c = ','): `end` is the
\* 1-based position of the rune read, `start` the position where the open
\* field began (0: no field is open), `spans` the fields closed so far.
FieldsFuncLoop(s, end, start, spans) ==
    IF end > Len(s)
    THEN IF start > 0 THEN Append(spans, SubSeq(s, start, Len(s))) ELSE spans
    ELSE IF Rune(s, end) = ","
         THEN IF start > 0
              THEN FieldsFuncLoop(s, end + 1, 0, Append(spans, SubSeq(s, start, end - 1)))
              ELSE FieldsFuncLoop(s, end + 1, 0, spans)
         ELSE FieldsFuncLoop(s, end + 1, IF start > 0 THEN start ELSE end, spans)

\* FieldsFunc that cuts at no rune: the whole string is the one field.
FieldsFuncWhole(s) == IF s = "" THEN <<>> ELSE <<s>>

\* strings.FieldsFunc(s, func(c rune) bool { return c == ',' })
FieldsFunc(s) == FieldsFuncLoop(s, 1, 0, <<>>)

IsDigit(r) == \E i \in 1..Len(DecimalDigits) : Rune(DecimalDigits, i) = r
DigitValue(r) == (CHOOSE i \in 1..Len(DecimalDigits) : Rune(DecimalDigits, i) = r) - 1

\* A decimal numeral as strconv.ParseInt(s, 0, 0) reads it: digits only, no
\* leading zero (a leading zero selects another base).
IsDecimal(s) ==
    /\ s # ""
    /\ \A i \in 1..Len(s) : IsDigit(Rune(s, i))
    /\ (Len(s) > 1 => Head(s) # "0")

RECURSIVE DecimalValue(_)
DecimalValue(s) ==
    IF s = "" THEN 0
    ELSE 10 * DecimalValue(SubSeq(s, 1, Len(s) - 1)) + DigitValue(Rune(s, Len(s)))

\* ------------------------------------------------------------ Go values

NilValue == [t |-> "nil", s |-> "", n |-> 0, l |-> <<>>]
StringValue(str) == [t |-> "string", s |-> str, n |-> 0, l |-> <<>>]
BoolValue(b) == [t |-> "bool", s |-> "", n |-> IF b THEN 1 ELSE 0, l |-> <<>>]
IntValue(i) == [t |-> "int", s |-> "", n |-> i, l |-> <<>>]
\* A time.Duration of `sec` seconds.
DurationValue(sec) == [t |-> "duration", s |-> "", n |-> sec, l |-> <<>>]
StringSliceValue(list) == [t |-> "[]string", s |-> "", n |-> 0, l |-> list]

\* strconv.ParseBool: the strings it accepts as true; every other string but
\* "0", "f", "F", "FALSE", "false", "False" is an error, which cast.ToBool
\* turns into false.
ParseBool(str) == str \in {"1", "t", "T", "TRUE", "true", "True"}

RECURSIVE FormatInt(_)
\* strconv.Itoa of a natural number.
FormatInt(i) ==
    IF i < 10 THEN Rune(DecimalDigits, i + 1)
    ELSE FormatInt(i \div 10) \o Rune(DecimalDigits, (i % 10) + 1)

\* cast.ToString of a string, a bool, an int or nil.
ToString(val) ==
    CASE val.t = "string" -> val.s
      [] val.t = "bool" -> IF val.n = 1 THEN "true" ELSE "false"
      [] val.t = "int" -> FormatInt(val.n)
      [] OTHER -> ""

\* cast.ToBool
ToBool(val) ==
    CASE val.t = "bool" -> val.n = 1
      [] val.t = "int" -> val.n # 0
      [] val.t = "string" -> ParseBool(val.s)
      [] OTHER -> FALSE

\* cast.ToInt: a string that strconv.ParseInt rejects yields 0.
ToInt(val) ==
    CASE val.t = "int" -> val.n
      [] val.t = "bool" -> val.n
      [] val.t = "string" -> IF IsDecimal(val.s) THEN DecimalValue(val.s) ELSE 0
      [] OTHER -> 0

\* cast.ToDuration, in whole seconds: a string is read by time.ParseDuration,
\* of which the numerals followed by the unit "s" are modelled; a string it
\* rejects yields 0.
ToDuration(val) ==
    CASE val.t = "duration" -> val.n
      [] val.t = "string" ->
            IF Len(val.s) > 1 /\ Rune(val.s, Len(val.s)) = "s"
               /\ IsDecimal(SubSeq(val.s, 1, Len(val.s) - 1))
            THEN DecimalValue(SubSeq(val.s, 1, Len(val.s) - 1))
            ELSE 0
      [] OTHER -> 0

\* ------------------------------------------------- names and defaults

EnvPrefix == "REGISTRATION"

varHTTPAddress == "http.address"
DefaultHTTPAddress == StringValue("0.0.0.0:8080")
varHTTPIdleTimeout == "http.idle_timeout"
DefaultHTTPIdleTimeout == DurationValue(15)
varHTTPCompressResponses == "http.compress"
DefaultHTTPCompressResponses == BoolValue(TRUE)
varEnvironment == "environment"
DefaultEnvironment == StringValue("prod")
UnitTestsEnvironment == "unit-tests"
varLogLevel == "log.level"
DefaultLogLevel == StringValue("info")
varLogJSON == "log.json"
DefaultLogJSON == BoolValue(FALSE)
varGracefulTimeout == "graceful_timeout"
DefaultGracefulTimeout == DurationValue(15)
varHTTPWriteTimeout == "http.write_timeout"
DefaultHTTPWriteTimeout == DurationValue(15)
varHTTPReadTimeout == "http.read_timeout"
DefaultHTTPReadTimeout == DurationValue(15)
varAuthClientLibraryURL == "auth_client.library_url"
DefaultAuthClientLibraryURL == StringValue("http://129.40.58.177:8082/auth/js/keycloak.js")
varAuthClientConfigRaw == "auth_client.config.raw"
DefaultAuthClientConfigRaw ==
    StringValue("{\n\t  \"realm\": \"local\",\n\t  \"auth-server-url\": \"http://129.40.58.177:8082/auth\",\n\t  \"ssl-required\": \"none\",\n\t  \"resource\": \"crt\",\n\t  \"clientId\": \"crt\",\n\t  \"public-client\": true\n\t}")
varAuthClientConfigContentType == "auth_client.config.content_type"
DefaultAuthClientConfigContentType == StringValue("application/json; charset=utf-8")
varAuthClientPublicKeysURL == "auth_client.public_keys_url"
DefaultAuthClientPublicKeysURL ==
    StringValue("http://129.40.58.177:8082/auth/realms/local/protocol/openid-connect/certs")
varNamespace == "namespace"
DefaultNamespace == StringValue("toolchain-host-operator")
varVerificationEnabled == "verification.enabled"
DefaultVerificationEnabled == BoolValue(FALSE)
varVerificationDailyLimit == "verification.daily_limit"
DefaultVerificationDailyLimit == IntValue(5)
varVerificationAttemptsAllowed == "verification.attempts_allowed"
DefaultVerificationAttemptsAllowed == IntValue(3)
varTwilioAccountSID == "twilio.account.sid"
varTwilioAuthToken == "twilio.auth.token"
varTwilioFromNumber == "twilio.from_number"
varVerificationMessageTemplate == "verification.message_template"
DefaultVerificationMessageTemplate ==
    StringValue("Developer Sandbox for Red Hat OpenShift: Your verification code is %s")
varVerificationExcludedEmailDomains == "verification.excluded_email_domains"
varVerificationCodeExpiresInMin == "verification.code_expires_in_min"
DefaultVerificationCodeExpiresInMin == IntValue(5)
varWoopraDomain == "woopra.domain"
varSegmentWriteKey == "segment.write_key"

\* The keys the accessors read from the viper registry.
RegistryKeys ==
    { varHTTPAddress, varHTTPIdleTimeout, varHTTPCompressResponses, varEnvironment,
      varLogLevel, varLogJSON, varGracefulTimeout, varHTTPWriteTimeout,
      varHTTPReadTimeout, varAuthClientLibraryURL, varAuthClientConfigRaw,
      varAuthClientConfigContentType, varAuthClientPublicKeysURL, varNamespace,
      varVerificationEnabled, varVerificationDailyLimit, varVerificationAttemptsAllowed,
      varVerificationMessageTemplate, varVerificationExcludedEmailDomains,
      varVerificationCodeExpiresInMin, varWoopraDomain, varSegmentWriteKey }

\* The keys the accessors read from the secret mapping.
SecretKeys == { varTwilioAccountSID, varTwilioAuthToken, varTwilioFromNumber }

Keys == RegistryKeys \cup SecretKeys

\* setConfigDefaults: the defaults it registers, key by key.
ConfigDefaults ==
    [key \in { varHTTPAddress, varHTTPCompressResponses, varHTTPWriteTimeout,
               varHTTPReadTimeout, varHTTPIdleTimeout, varEnvironment, varLogLevel,
               varLogJSON, varGracefulTimeout, varAuthClientLibraryURL,
               varAuthClientConfigContentType, varAuthClientPublicKeysURL, varNamespace,
               varAuthClientConfigRaw, varVerificationEnabled, varVerificationDailyLimit,
               varVerificationAttemptsAllowed, varVerificationMessageTemplate,
               varVerificationCodeExpiresInMin } |->
        CASE key = varHTTPAddress -> DefaultHTTPAddress
          [] key = varHTTPCompressResponses -> DefaultHTTPCompressResponses
          [] key = varHTTPWriteTimeout -> DefaultHTTPWriteTimeout
          [] key = varHTTPReadTimeout -> DefaultHTTPReadTimeout
          [] key = varHTTPIdleTimeout -> DefaultHTTPIdleTimeout
          [] key = varEnvironment -> DefaultEnvironment
          [] key = varLogLevel -> DefaultLogLevel
          [] key = varLogJSON -> DefaultLogJSON
          [] key = varGracefulTimeout -> DefaultGracefulTimeout
          [] key = varAuthClientLibraryURL -> DefaultAuthClientLibraryURL
          [] key = varAuthClientConfigContentType -> DefaultAuthClientConfigContentType
          [] key = varAuthClientPublicKeysURL -> DefaultAuthClientPublicKeysURL
          [] key = varNamespace -> DefaultNamespace
          [] key = varAuthClientConfigRaw -> DefaultAuthClientConfigRaw
          [] key = varVerificationEnabled -> DefaultVerificationEnabled
          [] key = varVerificationDailyLimit -> DefaultVerificationDailyLimit
          [] key = varVerificationAttemptsAllowed -> DefaultVerificationAttemptsAllowed
          [] key = varVerificationMessageTemplate -> DefaultVerificationMessageTemplate
          [] key = varVerificationCodeExpiresInMin -> DefaultVerificationCodeExpiresInMin]

\* --------------------------------------------------- process environment

\* A map with no entry (a Go map that is nil or empty reads the same).
EmptyMap == [key \in {} |-> ""]

\* os.Setenv on the environment `env`, a map from variable names to values.
Setenv(env, name, value) ==
    [n \in DOMAIN env \cup {name} |-> IF n = name THEN value ELSE env[n]]

\* os.Unsetenv
Unsetenv(env, name) == [n \in DOMAIN env \ {name} |-> env[n]]

\* The variable of the process environment that carries each key: the one
\* the deployment sets for it, and the one that
\* configuration.LoadFromConfigMap(EnvPrefix, ...) sets for the entry of the
\* config map with that key.
EnvNameOf ==
    [key \in Keys |->
        CASE key = "http.address" -> "REGISTRATION_HTTP_ADDRESS"
          [] key = "http.compress" -> "REGISTRATION_HTTP_COMPRESS"
          [] key = "http.write_timeout" -> "REGISTRATION_HTTP_WRITE_TIMEOUT"
          [] key = "http.read_timeout" -> "REGISTRATION_HTTP_READ_TIMEOUT"
          [] key = "http.idle_timeout" -> "REGISTRATION_HTTP_IDLE_TIMEOUT"
          [] key = "environment" -> "REGISTRATION_ENVIRONMENT"
          [] key = "log.level" -> "REGISTRATION_LOG_LEVEL"
          [] key = "log.json" -> "REGISTRATION_LOG_JSON"
          [] key = "graceful_timeout" -> "REGISTRATION_GRACEFUL_TIMEOUT"
          [] key = "auth_client.library_url" -> "REGISTRATION_AUTH_CLIENT_LIBRARY_URL"
          [] key = "auth_client.config.content_type" ->
                 "REGISTRATION_AUTH_CLIENT_CONFIG_CONTENT_TYPE"
          [] key = "auth_client.config.raw" -> "REGISTRATION_AUTH_CLIENT_CONFIG_RAW"
          [] key = "twilio.account.sid" -> "REGISTRATION_TWILIO_ACCOUNT_SID"
          [] key = "twilio.auth.token" -> "REGISTRATION_TWILIO_AUTH_TOKEN"
          [] key = "auth_client.public_keys_url" -> "REGISTRATION_AUTH_CLIENT_PUBLIC_KEYS_URL"
          [] key = "namespace" -> "REGISTRATION_NAMESPACE"
          [] key = "verification.enabled" -> "REGISTRATION_VERIFICATION_ENABLED"
          [] key = "verification.daily_limit" -> "REGISTRATION_VERIFICATION_DAILY_LIMIT"
          [] key = "verification.attempts_allowed" ->
                 "REGISTRATION_VERIFICATION_ATTEMPTS_ALLOWED"
          [] key = "verification.message_template" ->
                 "REGISTRATION_VERIFICATION_MESSAGE_TEMPLATE"
          [] key = "verification.excluded_email_domains" ->
                 "REGISTRATION_VERIFICATION_EXCLUDED_EMAIL_DOMAINS"
          [] key = "twilio.from_number" -> "REGISTRATION_TWILIO_FROM_NUMBER"
          [] key = "verification.code_expires_in_min" ->
                 "REGISTRATION_VERIFICATION_CODE_EXPIRES_IN_MIN"
          [] key = "woopra.domain" -> "REGISTRATION_WOOPRA_DOMAIN"
          [] key = "segment.write_key" -> "REGISTRATION_SEGMENT_WRITE_KEY"]

\* EnvKey without the key replacer: the dots of the key are kept.
EnvKeyNoReplacer(key) == ToUpper(EnvPrefix \o "_" \o key)

\* The variable AutomaticEnv reads for `key`: viper's mergeWithEnvPrefix
\* upper-cases prefix, "_" and key, and getEnv applies the key replacer set
\* by SetEnvKeyReplacer(strings.NewReplacer(".", "_")).
EnvKey(key) == ReplaceRune(ToUpper(EnvPrefix \o "_" \o key), ".", "_")

\* EnvKey of every key, computed once.
EnvKeyOf == [key \in Keys |-> EnvKey(key)]

\* ------------------------------------------------------- viper registry

\* A map from keys to Go values with no entry.
EmptyValues == [key \in {} |-> NilValue]

\* viper.New(): no default, no config file named or read, no environment
\* binding.
ViperNew ==
    [ automaticEnvApplied |-> FALSE, typeByDefValue |-> FALSE, configFile |-> "",
      defaults |-> EmptyValues, config |-> EmptyValues ]

\* getEnv that finds no variable set.
ViperGetEnvOff(env, name) == [val |-> "", ok |-> FALSE]

\* viper's getEnv: os.LookupEnv, where a variable set to the empty string
\* counts as not set (AllowEmptyEnv is off).
ViperGetEnv(env, name) ==
    [ val |-> IF name \in DOMAIN env THEN env[name] ELSE "",
      ok |-> name \in DOMAIN env /\ env[name] # "" ]

\* ViperFind with the config file read before the environment.
ViperFindFileFirst(v, env, key) ==
    LET e == ViperGetEnv(env, EnvKeyOf[key])
    IN  IF key \in DOMAIN v.config THEN v.config[key]
        ELSE IF v.automaticEnvApplied /\ e.ok THEN StringValue(e.val)
        ELSE IF key \in DOMAIN v.defaults THEN v.defaults[key]
        ELSE NilValue

\* viper's find, over the sources this program uses, in viper's order: the
\* environment (AutomaticEnv), then the config file, then the defaults.
ViperFind(v, env, key) ==
    LET e == ViperGetEnv(env, EnvKeyOf[key])
    IN  IF v.automaticEnvApplied /\ e.ok THEN StringValue(e.val)
        ELSE IF key \in DOMAIN v.config THEN v.config[key]
        ELSE IF key \in DOMAIN v.defaults THEN v.defaults[key]
        ELSE NilValue

\* viper's Get: with SetTypeByDefaultValue(true) the value found is cast to
\* the type of the key's default, when it has one.
ViperGet(v, env, key) ==
    LET val == ViperFind(v, env, key)
        valType == IF key \in DOMAIN v.defaults THEN v.defaults[key].t ELSE val.t
    IN  IF val.t = "nil" \/ ~v.typeByDefValue THEN val
        ELSE CASE valType = "bool" -> BoolValue(ToBool(val))
               [] valType = "string" -> StringValue(ToString(val))
               [] valType = "int" -> IntValue(ToInt(val))
               [] valType = "duration" -> DurationValue(ToDuration(val))
               [] OTHER -> val

GetString(v, env, key) == ToString(ViperGet(v, env, key))
GetBool(v, env, key) == ToBool(ViperGet(v, env, key))
GetInt(v, env, key) == ToInt(ViperGet(v, env, key))
GetDuration(v, env, key) == ToDuration(ViperGet(v, env, key))

\* viper's AllKeys: the keys of the defaults and of the config file (the
\* environment contributes none: no variable is bound by name).
AllKeys(v) == DOMAIN v.defaults \cup DOMAIN v.config

\* ------------------------------------------------------------ ViperConfig

\* The nil *ViperConfig.
NilConfig ==
    [ isNil |-> TRUE, v |-> ViperNew, secretValues |-> EmptyMap, excludedDomains |-> <<>> ]

\* setConfigDefaults with the defaults of verification.daily_limit and
\* verification.attempts_allowed given to each other.
setConfigDefaultsSwapped(v) ==
    [v EXCEPT !.typeByDefValue = TRUE,
              !.defaults =
                  [key \in DOMAIN ConfigDefaults |->
                      CASE key = varVerificationDailyLimit ->
                               ConfigDefaults[varVerificationAttemptsAllowed]
                        [] key = varVerificationAttemptsAllowed ->
                               ConfigDefaults[varVerificationDailyLimit]
                        [] OTHER -> ConfigDefaults[key]]]

\* c.setConfigDefaults()
setConfigDefaults(v) == [v EXCEPT !.typeByDefValue = TRUE, !.defaults = ConfigDefaults]

\* initConfig that also registers the entries of the secret in the registry.
initConfigMergingSecret(secret, env) ==
    LET v0 == setConfigDefaults([ViperNew EXCEPT !.automaticEnvApplied = TRUE,
                                                 !.typeByDefValue = TRUE])
        v == [v0 EXCEPT !.defaults =
                 [key \in DOMAIN v0.defaults \cup DOMAIN secret |->
                     IF key \in DOMAIN secret THEN StringValue(secret[key])
                     ELSE v0.defaults[key]]]
    IN  [ isNil |-> FALSE, v |-> v, secretValues |-> secret,
          excludedDomains |->
              FieldsFunc(GetString(v, env, varVerificationExcludedEmailDomains)) ]

\* initConfig(secret), run in the environment `env`.
initConfig(secret, env) ==
    LET v == setConfigDefaults([ViperNew EXCEPT !.automaticEnvApplied = TRUE,
                                                !.typeByDefValue = TRUE])
    IN  [ isNil |-> FALSE, v |-> v, secretValues |-> secret,
          excludedDomains |->
              FieldsFunc(GetString(v, env, varVerificationExcludedEmailDomains)) ]

\* configuration.LoadFromConfigMap(EnvPrefix, ...): every entry of the config
\* map becomes a variable of the process environment.
RECURSIVE SetenvAll(_, _, _)
SetenvAll(env, data, keys) ==
    IF keys = {} THEN env
    ELSE LET key == CHOOSE k \in keys : TRUE
         IN  SetenvAll(Setenv(env, EnvNameOf[key], data[key]), data, keys \ {key})

LoadFromConfigMap(env, cl) ==
    IF cl.configMapErr THEN [env |-> env, err |-> "config map"]
    ELSE [env |-> SetenvAll(env, cl.configMap, DOMAIN cl.configMap), err |-> ""]

\* LoadConfig(cl) in the environment `env`: the configuration (nil on error),
\* the error ("" for nil) and the environment it leaves.
LoadConfig(env, cl) ==
    LET env1 == Setenv(env, "HOST_OPERATOR_SECRET_NAME", "host-operator-secret")
        env2 == Setenv(env1, "HOST_OPERATOR_CONFIG_MAP_NAME", "host-operator-config")
        cm == LoadFromConfigMap(env2, cl)
    IN  IF cl.secretErr THEN [c |-> NilConfig, err |-> "secret", env |-> env1]
        ELSE IF cm.err # "" THEN [c |-> NilConfig, err |-> cm.err, env |-> cm.env]
        ELSE [c |-> initConfig(cl.secret, cm.env), err |-> "", env |-> cm.env]

\* ReadConfigFile that keeps the list initConfig derived, whatever the file
\* holds.
ReadConfigFileNoRederive(c, env, configFilePath, file) ==
    IF configFilePath = "" THEN [c |-> c, err |-> ""]
    ELSE IF file.err THEN [c |-> NilConfig, err |-> "failed to read config file"]
    ELSE [ c |-> [c EXCEPT !.v = [c.v EXCEPT !.configFile = configFilePath,
                                             !.config = [key \in DOMAIN file.data |->
                                                             StringValue(file.data[key])]]],
           err |-> "" ]

\* ReadConfigFile that goes on with `c` when ReadInConfig fails.
ReadConfigFileLenient(c, env, configFilePath, file) ==
    IF configFilePath = "" \/ file.err THEN [c |-> c, err |-> ""]
    ELSE LET v == [c.v EXCEPT !.configFile = configFilePath,
                              !.config = [key \in DOMAIN file.data |->
                                              StringValue(file.data[key])]]
             merged == GetString(v, env, varVerificationExcludedEmailDomains)
         IN  [ c |-> [c EXCEPT !.v = v,
                               !.excludedDomains =
                                   IF merged # "" THEN FieldsFunc(merged) ELSE @],
               err |-> "" ]

\* The body of New after LoadConfig succeeded with `c`: `file` is what
\* ReadInConfig finds at configFilePath.
ReadConfigFile(c, env, configFilePath, file) ==
    IF configFilePath = "" THEN [c |-> c, err |-> ""]
    ELSE IF file.err THEN [c |-> NilConfig, err |-> "failed to read config file"]
    ELSE LET v == [c.v EXCEPT !.configFile = configFilePath,
                              !.config = [key \in DOMAIN file.data |->
                                              StringValue(file.data[key])]]
             merged == GetString(v, env, varVerificationExcludedEmailDomains)
         IN  [ c |-> [c EXCEPT !.v = v,
                               !.excludedDomains =
                                   IF merged # "" THEN FieldsFunc(merged) ELSE @],
               err |-> "" ]

\* New(configFilePath, cl) in the environment `env`.
NewConfig(env, configFilePath, cl, file) ==
    LET loaded == LoadConfig(env, cl)
        read == ReadConfigFile(loaded.c, loaded.env, configFilePath, file)
    IN  IF loaded.err # "" THEN loaded
        ELSE [c |-> read.c, err |-> read.err, env |-> loaded.env]

\* ----------------------------------------------------------------- inputs

RECURSIVE StringsOver(_, _)
\* The strings of at most n runes over the runes of `alphabet`.
StringsOver(alphabet, n) ==
    IF n = 0 THEN {""}
    ELSE LET shorter == StringsOver(alphabet, n - 1)
         IN  shorter \cup {s \o Rune(alphabet, i) : s \in shorter, i \in 1..Len(alphabet)}

BoolKeys == { varHTTPCompressResponses, varLogJSON, varVerificationEnabled }
IntKeys ==
    { varVerificationDailyLimit, varVerificationAttemptsAllowed,
      varVerificationCodeExpiresInMin }
DurationKeys ==
    { varHTTPWriteTimeout, varHTTPReadTimeout, varHTTPIdleTimeout, varGracefulTimeout }

\* The strings the environment, the config map and the file supply for a key.
InputStrings(key) ==
    CASE key = varVerificationExcludedEmailDomains ->
             StringsOver("a,", MaxLen) \cup {"redhat.com,ibm.com"}
      [] key \in BoolKeys -> {"", "true", "false"}
      [] key \in IntKeys -> {"", "7", "12"}
      [] key \in DurationKeys -> {"", "30s", "45s"}
      [] OTHER -> {"", "dev", UnitTestsEnvironment}

InputsOf == [key \in Keys |-> InputStrings(key)]

\* The strings the secret holds for a key.
SecretStrings == {"s3cr3t"}

\* The sets of keys that the sources (process environment, config map, config
\* file, secret) supply together in one run: none, or one key, which any of
\* the sources may then supply.  ViperFind resolves a key from the entries of
\* that key alone.
KeySets == {{}} \cup {{key} : key \in Keys}

\* The maps from some keys of K to input strings.
InputMaps(K) ==
    UNION { {m \in [S -> UNION {InputsOf[key] : key \in S}] :
                 \A key \in S : m[key] \in InputsOf[key]} : S \in SUBSET K }

\* The maps from some secret keys of K to secret strings.
SecretMaps(K) == UNION { [S -> SecretStrings] : S \in SUBSET (K \cap SecretKeys) }

\* ------------------------------------------------------------------ state

VARIABLES
    osenv,  \* the process environment: variable name -> value
    c,      \* the configuration the latest New returned (NilConfig: none)
    ret     \* what the latest operation returned

vars == <<osenv, c, ret>>

\* An operation called with no argument.
NoArgs ==
    [ configFilePath |-> "", secretErr |-> FALSE, configMapErr |-> FALSE,
      fileErr |-> FALSE, secret |-> EmptyMap ]

\* What the latest operation was and returned: its name, its value, its
\* error ("": nil), the key/value pairs it handed to the logger (PrintConfig)
\* and, for New, the path it was called with and what the client and
\* ReadInConfig met (the errors, the secret).
Return(op, val, err, log, args) ==
    [op |-> op, val |-> val, err |-> err, log |-> log, args |-> args]

\* The keys that a source supplies in the environment `env` with the
\* configuration `conf`.
SuppliedKeys(env, conf) ==
    {key \in Keys : EnvNameOf[key] \in DOMAIN env}
        \cup DOMAIN conf.v.config \cup DOMAIN conf.secretValues

\* The sets of KeySets that hold the keys already supplied.
Scopes == {K \in KeySets : SuppliedKeys(osenv, c) \subseteq K}

Init ==
    /\ osenv = EmptyMap
    /\ c = NilConfig
    /\ ret = Return("", NilValue, "", EmptyValues, NoArgs)

\* The process environment changes: the variable bound to a key is set.
EnvSet(key, value) ==
    /\ osenv' = Setenv(osenv, EnvNameOf[key], value)
    /\ ret' = Return("Setenv", NilValue, "", EmptyValues, NoArgs)
    /\ UNCHANGED c

\* The process environment changes: the variable bound to a key is unset.
EnvUnset(key) ==
    /\ EnvNameOf[key] \in DOMAIN osenv
    /\ osenv' = Unsetenv(osenv, EnvNameOf[key])
    /\ ret' = Return("Unsetenv", NilValue, "", EmptyValues, NoArgs)
    /\ UNCHANGED c

\* c, err := New(configFilePath, cl)
New(configFilePath, cl, file) ==
    LET r == NewConfig(osenv, configFilePath, cl, file)
    IN  /\ osenv' = r.env
        /\ c' = r.c
        /\ ret' = Return("New", NilValue, r.err, EmptyValues,
                         [ configFilePath |-> configFilePath, secretErr |-> cl.secretErr,
                           configMapErr |-> cl.configMapErr, fileErr |-> file.err,
                           secret |-> cl.secret ])

\* -------------------------------------------------------------- accessors

\* m[key] on a Go map of strings: the zero value when the key is absent (or
\* the map nil).
MapIndex(m, key) == IF key \in DOMAIN m THEN m[key] ELSE ""

\* A method of the constructed configuration returns `val`: it runs on a
\* non-nil receiver and leaves the configuration and the environment alone.
Returns(op, val) ==
    /\ ~c.isNil
    /\ ret' = Return(op, val, "", EmptyValues, NoArgs)
    /\ UNCHANGED <<osenv, c>>

GetHTTPAddress == Returns("GetHTTPAddress", StringValue(GetString(c.v, osenv, varHTTPAddress)))

GetHTTPCompressResponses ==
    Returns("GetHTTPCompressResponses",
            BoolValue(GetBool(c.v, osenv, varHTTPCompressResponses)))

GetHTTPWriteTimeout ==
    Returns("GetHTTPWriteTimeout",
            DurationValue(GetDuration(c.v, osenv, varHTTPWriteTimeout)))

GetHTTPReadTimeout ==
    Returns("GetHTTPReadTimeout",
            DurationValue(GetDuration(c.v, osenv, varHTTPReadTimeout)))

GetHTTPIdleTimeout ==
    Returns("GetHTTPIdleTimeout",
            DurationValue(GetDuration(c.v, osenv, varHTTPIdleTimeout)))

GetEnvironment == Returns("GetEnvironment", StringValue(GetString(c.v, osenv, varEnvironment)))

GetLogLevel == Returns("GetLogLevel", StringValue(GetString(c.v, osenv, varLogLevel)))

IsLogJSON == Returns("IsLogJSON", BoolValue(GetBool(c.v, osenv, varLogJSON)))

GetGracefulTimeout ==
    Returns("GetGracefulTimeout",
            DurationValue(GetDuration(c.v, osenv, varGracefulTimeout)))

\* IsTestingMode that compares with the default environment.
IsTestingModeOfDefault ==
    Returns("IsTestingMode",
            BoolValue(GetString(c.v, osenv, varEnvironment) = ToString(DefaultEnvironment)))

IsTestingMode ==
    Returns("IsTestingMode",
            BoolValue(GetString(c.v, osenv, varEnvironment) = UnitTestsEnvironment))

GetAuthClientLibraryURL ==
    Returns("GetAuthClientLibraryURL",
            StringValue(GetString(c.v, osenv, varAuthClientLibraryURL)))

GetAuthClientConfigAuthContentType ==
    Returns("GetAuthClientConfigAuthContentType",
            StringValue(GetString(c.v, osenv, varAuthClientConfigContentType)))

GetAuthClientConfigAuthRaw ==
    Returns("GetAuthClientConfigAuthRaw",
            StringValue(GetString(c.v, osenv, varAuthClientConfigRaw)))

\* GetTwilioAccountSID that reads the registry.
GetTwilioAccountSIDFromStore ==
    Returns("GetTwilioAccountSID",
            StringValue(GetString(c.v, osenv, varTwilioAccountSID)))

GetTwilioAccountSID ==
    Returns("GetTwilioAccountSID",
            StringValue(MapIndex(c.secretValues, varTwilioAccountSID)))

GetTwilioAuthToken ==
    Returns("GetTwilioAuthToken",
            StringValue(MapIndex(c.secretValues, varTwilioAuthToken)))

GetAuthClientPublicKeysURL ==
    Returns("GetAuthClientPublicKeysURL",
            StringValue(GetString(c.v, osenv, varAuthClientPublicKeysURL)))

GetNamespace == Returns("GetNamespace", StringValue(GetString(c.v, osenv, varNamespace)))

GetVerificationEnabled ==
    Returns("GetVerificationEnabled",
            BoolValue(GetBool(c.v, osenv, varVerificationEnabled)))

GetVerificationDailyLimit ==
    Returns("GetVerificationDailyLimit",
            IntValue(GetInt(c.v, osenv, varVerificationDailyLimit)))

GetVerificationAttemptsAllowed ==
    Returns("GetVerificationAttemptsAllowed",
            IntValue(GetInt(c.v, osenv, varVerificationAttemptsAllowed)))

GetVerificationMessageTemplate ==
    Returns("GetVerificationMessageTemplate",
            StringValue(GetString(c.v, osenv, varVerificationMessageTemplate)))

\* GetVerificationExcludedEmailDomains that derives the list anew and keeps
\* it.
GetVerificationExcludedEmailDomainsRederiving ==
    LET list == FieldsFunc(GetString(c.v, osenv, varVerificationExcludedEmailDomains))
    IN  /\ ~c.isNil
        /\ c' = [c EXCEPT !.excludedDomains = list]
        /\ ret' = Return("GetVerificationExcludedEmailDomains", StringSliceValue(list),
                         "", EmptyValues, NoArgs)
        /\ UNCHANGED osenv

GetVerificationExcludedEmailDomains ==
    Returns("GetVerificationExcludedEmailDomains",
            StringSliceValue(c.excludedDomains))

GetTwilioFromNumber ==
    Returns("GetTwilioFromNumber",
            StringValue(MapIndex(c.secretValues, varTwilioFromNumber)))

GetVerificationCodeExpiresInMin ==
    Returns("GetVerificationCodeExpiresInMin",
            IntValue(GetInt(c.v, osenv, varVerificationCodeExpiresInMin)))

GetWoopraDomain ==
    Returns("GetWoopraDomain",
            StringValue(GetString(c.v, osenv, varWoopraDomain)))

GetSegmentWriteKey ==
    Returns("GetSegmentWriteKey",
            StringValue(GetString(c.v, osenv, varSegmentWriteKey)))

\* PrintConfig: every key of AllKeys with the value Get resolves for it goes
\* to the logger.
PrintConfig ==
    /\ ~c.isNil
    /\ ret' = Return("PrintConfig", NilValue, "",
                     [key \in AllKeys(c.v) |-> ViperGet(c.v, osenv, key)], NoArgs)
    /\ UNCHANGED <<osenv, c>>

\* ------------------------------------------------------------------- next

\* What the client finds: the secret and the config map, or an error for
\* either.
Clients(K) ==
    {[secretErr |-> TRUE, secret |-> EmptyMap, configMapErr |-> FALSE, configMap |-> EmptyMap]}
        \cup {[secretErr |-> FALSE, secret |-> EmptyMap, configMapErr |-> TRUE,
               configMap |-> EmptyMap]}
        \cup {[secretErr |-> FALSE, secret |-> s, configMapErr |-> FALSE, configMap |-> m] :
                  s \in SecretMaps(K), m \in InputMaps(K)}

\* What ReadInConfig would find at the path: a YAML file, or an error (no
\* file, no permission, no YAML).  At the empty path only the two cases count.
Files(K, configFilePath) ==
    {[err |-> TRUE, data |-> EmptyMap]}
        \cup {[err |-> FALSE, data |-> m] :
                  m \in IF configFilePath = "" THEN {EmptyMap} ELSE InputMaps(K)}

ConfigFilePaths == {"", "config.yaml"}

ClientsOf == [K \in KeySets |-> Clients(K)]
FilesOf == [K \in KeySets |-> [path \in ConfigFilePaths |-> Files(K, path)]]

\* The process starts: it constructs its configuration, once; a construction
\* that failed may be tried again.
Startup ==
    /\ c.isNil
    /\ \E K \in Scopes : \E configFilePath \in ConfigFilePaths :
           \E cl \in ClientsOf[K] : \E file \in FilesOf[K][configFilePath] :
               New(configFilePath, cl, file)

\* The process environment changes, before or after the construction.
Environment ==
    \/ \E key \in UNION Scopes : \E value \in InputsOf[key] : EnvSet(key, value)
    \/ \E key \in Keys : EnvUnset(key)

Next ==
    \/ Environment
    \/ Startup
    \/ GetHTTPAddress
    \/ GetHTTPCompressResponses
    \/ GetHTTPWriteTimeout
    \/ GetHTTPReadTimeout
    \/ GetHTTPIdleTimeout
    \/ GetEnvironment
    \/ GetLogLevel
    \/ IsLogJSON
    \/ GetGracefulTimeout
    \/ IsTestingMode
    \/ GetAuthClientLibraryURL
    \/ GetAuthClientConfigAuthContentType
    \/ GetAuthClientConfigAuthRaw
    \/ GetTwilioAccountSID
    \/ GetTwilioAuthToken
    \/ GetAuthClientPublicKeysURL
    \/ GetNamespace
    \/ GetVerificationEnabled
    \/ GetVerificationDailyLimit
    \/ GetVerificationAttemptsAllowed
    \/ GetVerificationMessageTemplate
    \/ GetVerificationExcludedEmailDomains
    \/ GetTwilioFromNumber
    \/ GetVerificationCodeExpiresInMin
    \/ GetWoopraDomain
    \/ GetSegmentWriteKey
    \/ PrintConfig

Spec == Init /\ [][Next]_vars

\* ============================================================== claims

\* The accessor of each key, as the Configuration interface names it.
AccessorOf ==
    [key \in Keys |->
        CASE key = "http.address" -> "GetHTTPAddress"
          [] key = "http.compress" -> "GetHTTPCompressResponses"
          [] key = "http.write_timeout" -> "GetHTTPWriteTimeout"
          [] key = "http.read_timeout" -> "GetHTTPReadTimeout"
          [] key = "http.idle_timeout" -> "GetHTTPIdleTimeout"
          [] key = "environment" -> "GetEnvironment"
          [] key = "log.level" -> "GetLogLevel"
          [] key = "log.json" -> "IsLogJSON"
          [] key = "graceful_timeout" -> "GetGracefulTimeout"
          [] key = "auth_client.library_url" -> "GetAuthClientLibraryURL"
          [] key = "auth_client.config.content_type" -> "GetAuthClientConfigAuthContentType"
          [] key = "auth_client.config.raw" -> "GetAuthClientConfigAuthRaw"
          [] key = "twilio.account.sid" -> "GetTwilioAccountSID"
          [] key = "twilio.auth.token" -> "GetTwilioAuthToken"
          [] key = "auth_client.public_keys_url" -> "GetAuthClientPublicKeysURL"
          [] key = "namespace" -> "GetNamespace"
          [] key = "verification.enabled" -> "GetVerificationEnabled"
          [] key = "verification.daily_limit" -> "GetVerificationDailyLimit"
          [] key = "verification.attempts_allowed" -> "GetVerificationAttemptsAllowed"
          [] key = "verification.message_template" -> "GetVerificationMessageTemplate"
          [] key = "verification.excluded_email_domains" ->
                 "GetVerificationExcludedEmailDomains"
          [] key = "twilio.from_number" -> "GetTwilioFromNumber"
          [] key = "verification.code_expires_in_min" -> "GetVerificationCodeExpiresInMin"
          [] key = "woopra.domain" -> "GetWoopraDomain"
          [] key = "segment.write_key" -> "GetSegmentWriteKey"]

\* The documented default of each key of the options table, as its accessor
\* returns it.  The three defaults the table only describes (two URLs, the
\* JSON blob, the message template) are the constants of the source.
DocumentedDefault ==
    [key \in RegistryKeys |->
        CASE key = "http.address" -> StringValue("0.0.0.0:8080")
          [] key = "http.idle_timeout" -> DurationValue(15)
          [] key = "http.compress" -> BoolValue(TRUE)
          [] key = "environment" -> StringValue("prod")
          [] key = "log.level" -> StringValue("info")
          [] key = "log.json" -> BoolValue(FALSE)
          [] key = "graceful_timeout" -> DurationValue(15)
          [] key = "http.write_timeout" -> DurationValue(15)
          [] key = "http.read_timeout" -> DurationValue(15)
          [] key = "auth_client.library_url" -> DefaultAuthClientLibraryURL
          [] key = "auth_client.config.raw" -> DefaultAuthClientConfigRaw
          [] key = "auth_client.config.content_type" ->
                 StringValue("application/json; charset=utf-8")
          [] key = "auth_client.public_keys_url" -> DefaultAuthClientPublicKeysURL
          [] key = "namespace" -> StringValue("toolchain-host-operator")
          [] key = "verification.enabled" -> BoolValue(FALSE)
          [] key = "verification.daily_limit" -> IntValue(5)
          [] key = "verification.attempts_allowed" -> IntValue(3)
          [] key = "verification.message_template" -> DefaultVerificationMessageTemplate
          [] key = "verification.excluded_email_domains" -> StringSliceValue(<<>>)
          [] key = "verification.code_expires_in_min" -> IntValue(5)
          [] key = "woopra.domain" -> StringValue("")
          [] key = "segment.write_key" -> StringValue("")]

ExcludedDomainsKey == "verification.excluded_email_domains"

RECURSIVE CommaFields(_, _)
\* The non-empty runs of s between commas, in order, read rune by rune with
\* the run in progress in `field`.
CommaFields(s, field) ==
    IF s = "" THEN (IF field = "" THEN <<>> ELSE <<field>>)
    ELSE IF Head(s) = ","
         THEN (IF field = "" THEN <<>> ELSE <<field>>) \o CommaFields(Tail(s), "")
         ELSE CommaFields(Tail(s), field \o Head(s))

\* A source's string as the accessor of the key returns it.
Typed(key, str) ==
    CASE key = ExcludedDomainsKey -> StringSliceValue(CommaFields(str, ""))
      [] key \in BoolKeys -> BoolValue(ToBool(StringValue(str)))
      [] key \in IntKeys -> IntValue(ToInt(StringValue(str)))
      [] key \in DurationKeys -> DurationValue(ToDuration(StringValue(str)))
      [] OTHER -> StringValue(str)

\* The environment variable of the key is set / its value.
EnvSupplies(key) == EnvNameOf[key] \in DOMAIN osenv
EnvValue(key) == osenv[EnvNameOf[key]]
\* The config file that New read holds the key / its value there.
FileSupplies(key) == key \in DOMAIN c.v.config
FileValue(key) == c.v.config[key].s

\* This step returns from the accessor of the key.  The list of excluded
\* domains is derived in New, so its accessor is looked at when it is called
\* next after New, in the environment New ran in.
Reads(key) ==
    /\ ret'.op = AccessorOf[key]
    /\ key = ExcludedDomainsKey => ret.op = "New"

\* ------------------------------------------------------------------- C1

\* C1 (as claimed): for every non-secret key that the config file supplies,
\* the accessor returns the file's value, whatever the environment holds.
C1_FileOverEnvironment ==
    [][\A key \in RegistryKeys :
          (Reads(key) /\ FileSupplies(key))
              => ret'.val = Typed(key, FileValue(key))]_vars

\* C1 (amended): for every non-secret key that the config file supplies, the
\* accessor returns the value of the environment variable of the key when
\* that is set and not empty, and the file's value otherwise: environment
\* over file over default.
C1_EnvironmentOverFile ==
    [][\A key \in RegistryKeys :
          (Reads(key) /\ FileSupplies(key))
              => ret'.val = Typed(key, IF EnvSupplies(key) /\ EnvValue(key) # ""
                                       THEN EnvValue(key) ELSE FileValue(key))]_vars

\* C1 witness: an accessor has returned for a key that the file and the
\* environment both supply, with different values.
C1_Witness ==
    \E key \in RegistryKeys :
        /\ ret.op = AccessorOf[key]
        /\ FileSupplies(key) /\ EnvSupplies(key)
        /\ EnvValue(key) # "" /\ FileValue(key) # ""
        /\ Typed(key, EnvValue(key)) # Typed(key, FileValue(key))
        /\ ret.val = Typed(key, EnvValue(key))

\* ------------------------------------------------------------------- C2

\* The environment variable of the key is set to a value that is not empty.
EnvGives(key) == EnvSupplies(key) /\ EnvValue(key) # ""

\* New was called with the empty file path: no config file was given.
NoFileGiven == c.v.configFile = ""

\* C2 (as claimed): for every non-secret key, when the variable
\* REGISTRATION_<KEY, upper case, dots as underscores> is set and no file is
\* given, the accessor returns the variable's value.
C2_AnySetVariableOverDefault ==
    [][\A key \in RegistryKeys :
          (Reads(key) /\ EnvSupplies(key) /\ NoFileGiven)
              => ret'.val = Typed(key, EnvValue(key))]_vars

\* C2 (amended): for every non-secret key, when the variable
\* REGISTRATION_<KEY, upper case, dots as underscores> is set and no file is
\* given, the accessor returns the variable's value if that is not empty,
\* and the default if it is empty: a variable set to the empty string counts
\* as not set.
C2_NonEmptyVariableOverDefault ==
    [][\A key \in RegistryKeys :
          (Reads(key) /\ EnvSupplies(key) /\ NoFileGiven)
              => ret'.val = IF EnvValue(key) # "" THEN Typed(key, EnvValue(key))
                            ELSE DocumentedDefault[key]]_vars

\* C2 witness: with no file given, the accessor of a key whose name has a
\* dot has returned the value of the key's variable, which is not the default.
C2_Witness ==
    \E key \in {varHTTPAddress, varVerificationDailyLimit, varLogJSON} :
        /\ ret.op = AccessorOf[key]
        /\ NoFileGiven /\ EnvGives(key)
        /\ ret.val = Typed(key, EnvValue(key))
        /\ ret.val # DocumentedDefault[key]

\* ------------------------------------------------------------------- C3

\* C3: for every key of the options table, when neither the environment nor
\* the file supplies a value, the accessor returns the documented default; for
\* verification.excluded_email_domains that is the empty list, for
\* woopra.domain and segment.write_key the empty string.
C3_DocumentedDefaults ==
    [][\A key \in RegistryKeys :
          (Reads(key) /\ ~EnvSupplies(key) /\ ~FileSupplies(key))
              => ret'.val = DocumentedDefault[key]]_vars

\* C3 witness: the accessor of verification.attempts_allowed has returned 3
\* with no variable set and no file entry for the key, while the secret held
\* no entry either.
C3_Witness ==
    /\ ret.op = AccessorOf[varVerificationAttemptsAllowed]
    /\ ~EnvSupplies(varVerificationAttemptsAllowed)
    /\ ~FileSupplies(varVerificationAttemptsAllowed)
    /\ DOMAIN c.secretValues = {}
    /\ ret.val = IntValue(3)

\* ------------------------------------------------------------------- C4

\* C4: the secret mapping of the configuration is the one the client returned
\* at construction, no later step changes it, and each Twilio accessor
\* returns its entry for the key (the empty string without one), whatever the
\* environment, the file and the defaults hold for that key.
C4_TwilioFromSecretOnly ==
    [][/\ (ret'.op = "New" /\ ret'.err = "") => c'.secretValues = ret'.args.secret
       /\ ~c.isNil => c'.secretValues = c.secretValues
       /\ \A key \in SecretKeys :
              ret'.op = AccessorOf[key]
                  => ret'.val = StringValue(MapIndex(c.secretValues, key))]_vars

\* C4 witness: a Twilio accessor has returned the secret's entry while the
\* environment and the file both held another value for the same key.
C4_Witness ==
    \E key \in SecretKeys :
        /\ ret.op = AccessorOf[key]
        /\ key \in DOMAIN c.secretValues
        /\ EnvGives(key) /\ FileSupplies(key)
        /\ EnvValue(key) # c.secretValues[key]
        /\ FileValue(key) # c.secretValues[key]
        /\ ret.val = StringValue(c.secretValues[key])

\* ------------------------------------------------------------------- C5

\* New met a failure: of the secret loader, of the config-map loader, or of
\* reading the file at a path that is not empty.
ConstructionFailure ==
    \/ ret.args.secretErr
    \/ ret.args.configMapErr
    \/ ret.args.configFilePath # "" /\ ret.args.fileErr

\* C5: New returns an error and the nil configuration when it met a failure,
\* and a configuration with no error in every other case.
C5_AllOrNothing ==
    ret.op = "New"
        => /\ ConstructionFailure => (ret.err # "" /\ c.isNil)
           /\ ~ConstructionFailure => (ret.err = "" /\ ~c.isNil)

\* C5 witness: New has failed on the file alone, the loaders working.
C5_Witness ==
    /\ ret.op = "New"
    /\ ~ret.args.secretErr /\ ~ret.args.configMapErr
    /\ ret.args.configFilePath # "" /\ ret.args.fileErr
    /\ ret.err # "" /\ c.isNil

\* ------------------------------------------------------------------- C6

\* The excluded-domains string the registry resolves.
ExcludedDomainsString ==
    IF EnvGives(ExcludedDomainsKey) THEN EnvValue(ExcludedDomainsKey)
    ELSE IF FileSupplies(ExcludedDomainsKey) THEN FileValue(ExcludedDomainsKey)
    ELSE ""

\* C6: GetVerificationExcludedEmailDomains returns the fields of the
\* configured string between commas, in order, empty fields left out:
\* "redhat.com,ibm.com" gives ["redhat.com", "ibm.com"], the empty string
\* the empty list.
C6_CommaSplit ==
    [][Reads(ExcludedDomainsKey)
          => /\ ret'.val = StringSliceValue(CommaFields(ExcludedDomainsString, ""))
             /\ ExcludedDomainsString = "redhat.com,ibm.com"
                    => ret'.val.l = <<"redhat.com", "ibm.com">>
             /\ ExcludedDomainsString = "" => ret'.val.l = <<>>]_vars

\* C6 witness: the accessor has returned the two domains, in order.
C6_Witness ==
    /\ ret.op = AccessorOf[ExcludedDomainsKey]
    /\ ExcludedDomainsString = "redhat.com,ibm.com"
    /\ ret.val.l = <<"redhat.com", "ibm.com">>

\* ------------------------------------------------------------------- C7

\* What the sources resolve for a key of the registry, as its accessor
\* returns it: environment over file over default.
Resolved(key) ==
    IF EnvGives(key) THEN Typed(key, EnvValue(key))
    ELSE IF FileSupplies(key) THEN Typed(key, FileValue(key))
    ELSE DocumentedDefault[key]

\* C7: IsTestingMode returns true exactly when the environment option
\* resolves to "unit-tests", and a call of GetEnvironment next to it, before
\* or after, returns "unit-tests" exactly when it returned true.
C7_TestingModeIffUnitTests ==
    [][/\ ret'.op = "IsTestingMode"
              => ret'.val = BoolValue(Resolved(varEnvironment).s = "unit-tests")
       /\ (ret.op = "GetEnvironment" /\ ret'.op = "IsTestingMode")
              => ret'.val = BoolValue(ret.val.s = "unit-tests")
       /\ (ret.op = "IsTestingMode" /\ ret'.op = "GetEnvironment")
              => ret.val = BoolValue(ret'.val.s = "unit-tests")]_vars

\* C7 witness: IsTestingMode has returned true.
C7_Witness ==
    /\ ret.op = "IsTestingMode"
    /\ Resolved(varEnvironment) = StringValue("unit-tests")
    /\ ret.val = BoolValue(TRUE)

\* ------------------------------------------------------------------- C8

\* C8: the registry holds no value of the secret, under no key, and
\* PrintConfig hands the logger only keys of the registry (defaults and file
\* entries), none with a value of the secret.
C8_NoSecretInRegistryOrLog ==
    /\ \A key \in DOMAIN c.v.defaults : ToString(c.v.defaults[key]) \notin SecretStrings
    /\ \A key \in DOMAIN c.v.config : ToString(c.v.config[key]) \notin SecretStrings
    /\ ret.op = "PrintConfig"
           => /\ DOMAIN ret.log = DOMAIN c.v.defaults \cup DOMAIN c.v.config
              /\ \A key \in DOMAIN ret.log : ToString(ret.log[key]) \notin SecretStrings

\* C8 witness: PrintConfig has logged while the secret mapping held a value,
\* the file holding another for the same key.
C8_Witness ==
    /\ ret.op = "PrintConfig"
    /\ \E key \in SecretKeys :
           /\ key \in DOMAIN c.secretValues
           /\ key \in DOMAIN ret.log
           /\ ToString(ret.log[key]) # c.secretValues[key]

\* ------------------------------------------------------------------- C9

\* The latest step changed the process environment.
EnvironmentChanged == ret.op \in {"Setenv", "Unsetenv"}

\* C9 (as claimed): after a change of the environment, the accessor of every
\* non-secret key, GetVerificationExcludedEmailDomains included, returns what
\* the sources resolve in the new environment.
C9_EveryAccessorLive ==
    [][\A key \in RegistryKeys :
          (EnvironmentChanged /\ ret'.op = AccessorOf[key]) => ret'.val = Resolved(key)]_vars

\* C9 (amended): after a change of the environment, the accessor of every
\* non-secret key but verification.excluded_email_domains returns what the
\* sources resolve in the new environment; a change of the environment
\* leaves the excluded-domains list of the configuration as New derived it,
\* and GetVerificationExcludedEmailDomains returns that list.
C9_LiveButExcludedDomains ==
    [][/\ \A key \in RegistryKeys \ {ExcludedDomainsKey} :
              (EnvironmentChanged /\ ret'.op = AccessorOf[key]) => ret'.val = Resolved(key)
       /\ (~c.isNil /\ ret'.op \in {"Setenv", "Unsetenv"})
              => c'.excludedDomains = c.excludedDomains
       /\ ret'.op = AccessorOf[ExcludedDomainsKey]
              => ret'.val = StringSliceValue(c.excludedDomains)]_vars

\* C9 witness: after a change of the environment,
\* GetVerificationExcludedEmailDomains has returned a list that is not the
\* split of what the sources resolve now.
C9_Witness ==
    /\ ret.op = AccessorOf[ExcludedDomainsKey]
    /\ ret.val # StringSliceValue(CommaFields(ExcludedDomainsString, ""))
    /\ ret.val = StringSliceValue(c.excludedDomains)

\* ------------------------------------------------------------------ C10

AccessorNames == {AccessorOf[key] : key \in Keys} \cup {"IsTestingMode"}

\* C10: a step of an accessor leaves the configuration (registry, secret
\* mapping, excluded-domains list) and the environment as they were and
\* returns no error; a Twilio accessor returns the empty string when the
\* secret mapping has no entry for its key, GetWoopraDomain and
\* GetSegmentWriteKey when no source has one, and
\* GetVerificationExcludedEmailDomains then returns the empty list.
C10_PureReadsZeroValues ==
    [][ret'.op \in AccessorNames
          => /\ c' = c /\ osenv' = osenv
             /\ ret'.err = ""
             /\ \A key \in SecretKeys :
                    (ret'.op = AccessorOf[key] /\ key \notin DOMAIN c.secretValues)
                        => ret'.val = StringValue("")
             /\ \A key \in {varWoopraDomain, varSegmentWriteKey} :
                    (ret'.op = AccessorOf[key] /\ ~EnvGives(key) /\ ~FileSupplies(key))
                        => ret'.val = StringValue("")
             /\ (Reads(ExcludedDomainsKey) /\ ~EnvGives(ExcludedDomainsKey)
                     /\ ~FileSupplies(ExcludedDomainsKey))
                        => ret'.val = StringSliceValue(<<>>)]_vars

\* C10 witness: a Twilio accessor has returned the empty string on a secret
\* mapping with no entry at all.
C10_Witness ==
    \E key \in SecretKeys :
        /\ ret.op = AccessorOf[key]
        /\ DOMAIN c.secretValues = {}
        /\ ret.val = StringValue("")
        /\ ret.err = ""

\* ------------------------------------------------------------------ C11

\* C11: when New has returned a configuration, its excluded-domains list is
\* the comma-split of the value the registry resolves for
\* verification.excluded_email_domains in the environment New leaves
\* (variable over file entry over the empty string), whether or not New
\* derived the list again after reading the file.
C11_ListIsSplitOfMergedValue ==
    (ret.op = "New" /\ ret.err = "")
        => /\ c.excludedDomains = CommaFields(ExcludedDomainsString, "")
           /\ c.excludedDomains =
                  CommaFields(GetString(c.v, osenv, varVerificationExcludedEmailDomains), "")

\* C11 witness: New has returned a configuration whose list comes from the
\* file alone: no variable gives the key, so the list initConfig derived
\* before the file was read was empty, and the list is not.
C11_Witness ==
    /\ ret.op = "New" /\ ret.err = ""
    /\ ~EnvGives(ExcludedDomainsKey)
    /\ FileSupplies(ExcludedDomainsKey)
    /\ c.excludedDomains # <<>>
    /\ c.excludedDomains = CommaFields(FileValue(ExcludedDomainsKey), "")

====
